---- MODULE Spec2Model ----
(***************************************************************************)
(* A model of database_manager.py: the DatabaseManager data store over one *)
(* SQLite file (users, user_progress, user_events, certificates).          *)
(*                                                                         *)
(* The store file is shared by every connection.  A connection that has    *)
(* executed an INSERT or UPDATE holds SQLite's write lock and a pending    *)
(* transaction until it commits or is closed; closing without a commit     *)
(* rolls the transaction back.  A write statement issued while another     *)
(* connection holds the lock ends in OperationalError ("database is        *)
(* locked") once the busy timeout expires.  SELECT statements read the     *)
(* committed rows.                                                         *)
(*                                                                         *)
(* Every operation takes a parameter f: the statement at which the storage *)
(* raises sqlite3.OperationalError ("none": no fault).                     *)
(***************************************************************************)
EXTENDS Integers, Sequences, FiniteSets, TLC

VARIABLES
    schema,   \* which tables and columns exist in the file
    db,       \* the committed rows: [users, progress, events, certs]
    txn,      \* the rows as seen by the connection holding the write lock
    lock,     \* the thread whose connection holds the write lock, 0: free
    now,      \* the store's CURRENT_TIMESTAMP (one-second ticks)
    open,     \* number of connections opened and not closed
    ready,    \* a DatabaseManager has been constructed
    pc,       \* per thread: "idle", or the operation it is inside of
    frame,    \* per thread: the locals of the operation it is inside of
    ret       \* how the last step ended: the call, its result or exception

vars == <<schema, db, txn, lock, now, open, ready, pc, frame, ret>>

---------------------------------------------------------------------------
(* Bounds of the model *)

MaxTime == 1
MaxEvents == 2
MaxCerts == 1
MaxOpen == 1

Threads == {1, 2}
Usernames == {"a", "b"}
Hashes == {"h1", "h2"}

---------------------------------------------------------------------------
(* Values *)

\* SQL NULL and Python None; a present value v is <<v>>
None == <<>>
Some(v) == <<v>>

Max(S) == CHOOSE x \in S : \A y \in S : y <= x

ProfileKeys == {"full_name", "parent_name", "dob", "class", "section", "school"}

\* dict.get(key, '')
Get(profile_data, key) ==
    IF key \in DOMAIN profile_data THEN profile_data[key] ELSE ""

\* the six profile columns written from a profile_data dict
ProfileColumns(profile_data) == [k \in ProfileKeys |-> Some(Get(profile_data, k))]

NullProfile == [k \in ProfileKeys |-> None]

\* profile_data arguments: None (also the falsy empty dict) and a partial dict
NoProfile == <<>>
PartialProfile == [k \in {"full_name"} |-> "F"]

---------------------------------------------------------------------------
(* The store file *)

NoTables ==
    [users |-> FALSE, is_admin |-> FALSE, progress |-> FALSE,
     events |-> FALSE, certs |-> FALSE]

\* a file written by the release that had no is_admin column
LegacyTables ==
    [users |-> TRUE, is_admin |-> FALSE, progress |-> TRUE,
     events |-> FALSE, certs |-> FALSE]

AllTables ==
    [users |-> TRUE, is_admin |-> TRUE, progress |-> TRUE,
     events |-> TRUE, certs |-> TRUE]

EmptyStore == [users |-> <<>>, progress |-> <<>>, events |-> <<>>, certs |-> <<>>]

\* JSON text is a sequence of tokens <<kind, text>>
JsonToken(kind, text) == <<kind, text>>

RECURSIVE JsonItems(_)
JsonItems(list) ==
    IF list = <<>> THEN <<>>
    ELSE IF Len(list) = 1 THEN <<JsonToken("string", list[1])>>
    ELSE <<JsonToken("string", list[1]), JsonToken(",", "")>> \o JsonItems(Tail(list))

\* json.dumps of a list of strings
JsonDumps(list) == <<JsonToken("[", "")>> \o JsonItems(list) \o <<JsonToken("]", "")>>

RECURSIVE JsonStrings(_)
JsonStrings(text) ==
    IF text = <<>> THEN <<>>
    ELSE IF Head(text)[1] = "string" THEN <<Head(text)[2]>> \o JsonStrings(Tail(text))
    ELSE JsonStrings(Tail(text))

\* json.loads of the text of a list of strings
JsonLoads(text) == JsonStrings(text)

\* '[]', the DEFAULT of the three progress columns
EmptyJson == <<JsonToken("[", ""), JsonToken("]", "")>>

UserRow(id, username, password_hash, profile, is_admin) ==
    [id |-> id, username |-> username, password_hash |-> password_hash,
     profile |-> profile, is_admin |-> is_admin, last_login |-> None]

\* a user_progress row whose points do not start at the column default
ProgressRowWithPoints(user_id) ==
    [user_id |-> user_id, points |-> 1, completed_tutorials |-> EmptyJson,
     completed_challenges |-> EmptyJson, emoji_collection |-> EmptyJson]

\* the row INSERT INTO user_progress (user_id) creates: the column defaults
ProgressRow(user_id) ==
    [user_id |-> user_id, points |-> 0, completed_tutorials |-> EmptyJson,
     completed_challenges |-> EmptyJson, emoji_collection |-> EmptyJson]

\* the rows a legacy file holds: users created by the older release
LegacyStores ==
    { [EmptyStore EXCEPT
         !.users = <<UserRow(1, "a", "h1", NullProfile, 0)>>,
         !.progress = <<ProgressRow(1)>>],
      [EmptyStore EXCEPT
         !.users = <<UserRow(1, "b", "h1", NullProfile, 0),
                     UserRow(2, "a", "h2", NullProfile, 0)>>,
         !.progress = <<ProgressRow(1), ProgressRow(2)>>] }

UserIds(d) == {d.users[i].id : i \in 1..Len(d.users)}
UsernamesOf(d) == {d.users[i].username : i \in 1..Len(d.users)}
Admins(d) == {d.users[i].id : i \in {j \in 1..Len(d.users) : d.users[j].is_admin = 1}}

\* INTEGER PRIMARY KEY AUTOINCREMENT: one more than the largest rowid
NextId(rows) == IF rows = <<>> THEN 1 ELSE Max({rows[i].id : i \in 1..Len(rows)}) + 1

---------------------------------------------------------------------------
(* What a step reports *)

\* log: how the log_event call made by the operation ended ("none": it
\* made no such call, "failed": log_event did not write its event)
NoRet == [op |-> "none", args |-> <<>>, kind |-> "none", val |-> None, log |-> "none"]

\* the operation returns val to its caller
Return(op, args, val) ==
    [op |-> op, args |-> args, kind |-> "return", val |-> val, log |-> "none"]

\* sqlite3.OperationalError leaves the operation and reaches its caller
Raise(op) == [op |-> op, args |-> <<>>, kind |-> "raise", val |-> None, log |-> "none"]

\* the same, with the call's arguments and the statement that raised
RaiseAt(op, args, statement) ==
    [Raise(op) EXCEPT !.args = args, !.val = Some(statement)]

\* the step made a log_event call that ended as outcome says
WithLog(r, outcome) == [r EXCEPT !.log = outcome]

Idle(t) == pc[t] = "idle"

\* a call that ends in its first step without having written anything
EndUnchanged(t) ==
    /\ Idle(t)
    /\ UNCHANGED <<schema, db, txn, lock, now, open, ready, pc, frame>>

\* the first write statement of an operation succeeded: the connection now
\* holds the lock and the pending rows d
Begin(t, op, locals, d) ==
    /\ lock = 0
    /\ lock' = t
    /\ txn' = d
    /\ pc' = [pc EXCEPT ![t] = op]
    /\ frame' = [frame EXCEPT ![t] = locals]
    /\ open' = open + 1
    /\ ret' = NoRet
    /\ UNCHANGED <<schema, db, now, ready>>

\* a connection that is closed with the rows in pending written but not
\* committed leaves them in the file
CloseKeepsPending(committed, pending) == pending

\* conn.close() with no conn.commit() before it: the transaction is rolled
\* back and the file holds the committed rows only
CloseWithoutCommit(committed, pending) == committed

\* the operation's connection is closed, in the finally clause, with d the
\* committed rows: the pending rows after conn.commit(), the rows as they
\* were when the transaction is rolled back by the close
Finish(t, d) ==
    /\ db' = d
    /\ txn' = d
    /\ lock' = 0
    /\ pc' = [pc EXCEPT ![t] = "idle"]
    /\ frame' = [frame EXCEPT ![t] = <<>>]
    /\ open' = open - 1
    /\ UNCHANGED <<schema, now, ready>>

---------------------------------------------------------------------------
(* initialize_database and _run_migrations *)

\* UPDATE users SET is_admin = ? WHERE id = ?
SetIsAdmin(d, user_id, is_admin) ==
    [d EXCEPT !.users =
        [i \in 1..Len(d.users) |->
            IF d.users[i].id = user_id
            THEN [d.users[i] EXCEPT !.is_admin = is_admin]
            ELSE d.users[i]]]

\* SELECT COUNT(*) FROM users WHERE is_admin = 1
AdminCount(d) == Cardinality(Admins(d))

\* Migration 2 without its admin_count == 0 test
PromotesUserAlways(d) == d.users # <<>>

\* Migration 2 promotes a user: admin_count == 0 and the SELECT found a row
PromotesUser(d) == AdminCount(d) = 0 /\ d.users # <<>>

\* the rows SELECT id FROM users LIMIT 1 may return: the table has no ORDER
\* BY and SQLite scans it in rowid or in username-index order
FirstUserChoices(d) == IF d.users = <<>> THEN {0} ELSE UserIds(d)

\* _run_migrations on a connection of a thread that holds no lock.
\* Gives the file afterwards and the statement that raised ("none": ran
\* to its end).  ALTER TABLE is committed as it runs; the UPDATE needs the
\* write lock.
RunMigrations(sch, d, lk, f, pick) ==
    LET altered == [sch EXCEPT !.is_admin = TRUE]
    IN  IF ~sch.is_admin /\ (f = "alter" \/ lk # 0)
        THEN [schema |-> sch, db |-> d, fault |-> "alter"]
        ELSE IF f = "count"
        THEN [schema |-> altered, db |-> d, fault |-> "count"]
        ELSE IF PromotesUser(d)
        THEN IF f = "update" \/ lk # 0
             THEN [schema |-> altered, db |-> d, fault |-> "update"]
             ELSE [schema |-> altered, db |-> SetIsAdmin(d, pick, 1), fault |-> "none"]
        ELSE [schema |-> altered, db |-> d, fault |-> "none"]

\* initialize_database: the file afterwards, the statement that raised, and
\* whether the connection was left open (no try/finally around the body)
InitializeDatabase(sch, d, lk, f, pick) ==
    LET created == [sch EXCEPT !.users = TRUE]
        m == RunMigrations(created, d, lk, f, pick)
    IN  IF f = "connect"
        THEN [schema |-> sch, db |-> d, fault |-> f, leaked |-> FALSE]
        ELSE IF f = "create_users"
        THEN [schema |-> sch, db |-> d, fault |-> f, leaked |-> TRUE]
        ELSE IF m.fault # "none"
        THEN [schema |-> m.schema, db |-> m.db, fault |-> m.fault, leaked |-> TRUE]
        ELSE IF f = "create_progress"
        THEN [schema |-> m.schema, db |-> m.db, fault |-> f, leaked |-> TRUE]
        ELSE IF f = "create_events"
        THEN [schema |-> [m.schema EXCEPT !.progress = TRUE], db |-> m.db,
              fault |-> f, leaked |-> TRUE]
        ELSE IF f = "create_certs"
        THEN [schema |-> [m.schema EXCEPT !.progress = TRUE, !.events = TRUE],
              db |-> m.db, fault |-> f, leaked |-> TRUE]
        ELSE [schema |-> AllTables, db |-> m.db, fault |-> "none", leaked |-> FALSE]

InitFaults ==
    {"none", "connect", "create_users", "alter", "count", "update",
     "create_progress", "create_events", "create_certs"}

\* DatabaseManager(): __init__ runs initialize_database
Initialize(t, f, pick) ==
    /\ Idle(t)
    /\ LET r == InitializeDatabase(schema, db, lock, f, pick)
       IN  /\ r.leaked => open < MaxOpen
           /\ schema' = r.schema
           /\ db' = r.db
           /\ txn' = IF lock = 0 THEN r.db ELSE txn
           /\ open' = IF r.leaked THEN open + 1 ELSE open
           /\ ready' = (ready \/ r.fault = "none")
           /\ ret' = IF r.fault = "none"
                     THEN Return("initialize_database", <<>>, None)
                     ELSE Raise("initialize_database")
    /\ UNCHANGED <<lock, now, pc, frame>>

---------------------------------------------------------------------------
(* log_event *)

EventRow(id, user_id, event_type, timestamp) ==
    [id |-> id, user_id |-> user_id, event_type |-> event_type, timestamp |-> timestamp]

\* INSERT INTO user_events (user_id, event_type, event_details); the
\* timestamp column takes its DEFAULT CURRENT_TIMESTAMP
InsertEvent(d, user_id, event_type, ts) ==
    [d EXCEPT !.events = Append(@, EventRow(NextId(d.events), user_id, event_type, ts))]

\* log_event on its own connection, called while lk holds the write lock
\* (0: nobody).  connect() is outside the try: its fault leaves log_event.
\* A fault of the INSERT, "database is locked" included, is printed and
\* swallowed.
LogEvent(d, lk, user_id, event_type, ts, f) ==
    IF f = "log_connect"
    THEN [db |-> d, raised |-> TRUE, outcome |-> "failed"]
    ELSE IF f = "log_insert" \/ lk # 0
    THEN [db |-> d, raised |-> FALSE, outcome |-> "failed"]
    ELSE [db |-> InsertEvent(d, user_id, event_type, ts), raised |-> FALSE,
          outcome |-> "logged"]

\* the bounded event table has room for one more event
EventRoom(d) == Len(d.events) < MaxEvents

---------------------------------------------------------------------------
(* add_user, get_user *)

\* a users table declared without UNIQUE on username
UsernameNeverTaken(d, username) == FALSE

\* the UNIQUE constraint on users.username
UsernameTaken(d, username) == username \in UsernamesOf(d)

\* an INSERT that binds the is_admin flag the wrong way round
InsertUserFlipped(d, username, password_hash, profile_data, is_admin) ==
    [d EXCEPT !.users = Append(@,
        UserRow(NextId(d.users), username, password_hash,
                IF DOMAIN profile_data # {} THEN ProfileColumns(profile_data)
                ELSE NullProfile,
                IF is_admin THEN 0 ELSE 1))]

\* INSERT INTO users: with a truthy profile_data the six profile columns
\* are written, '' for a missing key; otherwise they stay NULL
InsertUser(d, username, password_hash, profile_data, is_admin) ==
    [d EXCEPT !.users = Append(@,
        UserRow(NextId(d.users), username, password_hash,
                IF DOMAIN profile_data # {} THEN ProfileColumns(profile_data)
                ELSE NullProfile,
                IF is_admin THEN 1 ELSE 0))]

\* INSERT INTO user_progress (user_id)
InsertProgress(d, user_id) ==
    [d EXCEPT !.progress = Append(@, ProgressRow(user_id))]

\* add_user up to the INSERT into user_progress
AddUserInsert(t, username, password_hash, profile_data, is_admin, f) ==
    LET args == <<username, password_hash, profile_data, is_admin>>
        user_id == NextId(db.users)
    IN  /\ ready
        /\ Idle(t)
        /\ \/ /\ f = "connect"
              /\ ret' = Raise("add_user")
              /\ EndUnchanged(t)
           \/ /\ f = "insert_user" \/ (f = "none" /\ lock # 0)
              /\ ret' = Raise("add_user")
              /\ EndUnchanged(t)
           \/ /\ f = "none"
              /\ lock = 0
              /\ UsernameTaken(db, username)
              /\ ret' = Return("add_user", args, None)
              /\ EndUnchanged(t)
           \/ /\ f = "insert_progress"
              /\ lock = 0
              /\ ~UsernameTaken(db, username)
              /\ ret' = RaiseAt("add_user", args, "insert_progress")
              /\ db' = CloseWithoutCommit(
                          db, InsertUser(db, username, password_hash, profile_data,
                                         is_admin))
              /\ txn' = db'
              /\ UNCHANGED <<schema, lock, now, open, ready, pc, frame>>
           \/ /\ f = "none"
              /\ ~UsernameTaken(db, username)
              /\ Begin(t, "add_user", args \o <<user_id>>,
                       InsertProgress(
                          InsertUser(db, username, password_hash, profile_data, is_admin),
                          user_id))

\* add_user from its log_event call to the return
AddUserCommit(t, f) ==
    LET args == SubSeq(frame[t], 1, 4)
        user_id == frame[t][5]
        logged == LogEvent(db, lock, user_id, "user_created", now, f)
    IN  /\ pc[t] = "add_user"
        /\ \/ /\ logged.raised \/ f = "commit"
              /\ ret' = WithLog(Raise("add_user"), logged.outcome)
              /\ Finish(t, logged.db)
           \/ /\ f \in {"none", "log_insert"}
              /\ ret' = WithLog(Return("add_user", args, Some(user_id)), logged.outcome)
              /\ Finish(t, [txn EXCEPT !.events = logged.db.events])

\* what get_user returns for the committed rows d
get_user(d, username) ==
    LET rows == SelectSeq(d.users, LAMBDA u : u.username = username)
    IN  IF rows = <<>> THEN None
        ELSE Some([id |-> rows[1].id,
                   username |-> rows[1].username,
                   password_hash |-> rows[1].password_hash,
                   profile |-> rows[1].profile,
                   is_admin |-> rows[1].is_admin # 0])

GetUser(t, username, f) ==
    /\ ready
    /\ f \in {"none", "connect", "select"}
    /\ ret' = IF f = "none"
              THEN Return("get_user", <<username>>, get_user(db, username))
              ELSE Raise("get_user")
    /\ EndUnchanged(t)

---------------------------------------------------------------------------
(* update_last_login, update_user_profile, set_admin_status,
   reset_user_password *)

\* UPDATE users SET last_login = CURRENT_TIMESTAMP WHERE id = ?
SetLastLogin(d, user_id, ts) ==
    [d EXCEPT !.users =
        [i \in 1..Len(d.users) |->
            IF d.users[i].id = user_id
            THEN [d.users[i] EXCEPT !.last_login = Some(ts)]
            ELSE d.users[i]]]

\* UPDATE users SET full_name = ?, ... WHERE id = ?
SetProfile(d, user_id, profile_data) ==
    [d EXCEPT !.users =
        [i \in 1..Len(d.users) |->
            IF d.users[i].id = user_id
            THEN [d.users[i] EXCEPT !.profile = ProfileColumns(profile_data)]
            ELSE d.users[i]]]

\* UPDATE users SET password_hash = ? WHERE id = ?
SetPasswordHash(d, user_id, password_hash) ==
    [d EXCEPT !.users =
        [i \in 1..Len(d.users) |->
            IF d.users[i].id = user_id
            THEN [d.users[i] EXCEPT !.password_hash = password_hash]
            ELSE d.users[i]]]

\* update_last_login has try/finally and no except clause
UpdateLastLoginExec(t, user_id, f) ==
    /\ ready
    /\ Idle(t)
    /\ \/ /\ f = "connect" \/ f = "update" \/ (f = "none" /\ lock # 0)
          /\ ret' = Raise("update_last_login")
          /\ EndUnchanged(t)
       \/ /\ f = "none"
          /\ Begin(t, "update_last_login", <<user_id>>, SetLastLogin(db, user_id, now))

UpdateLastLoginCommit(t, f) ==
    /\ pc[t] = "update_last_login"
    /\ \/ /\ f = "commit"
          /\ ret' = Raise("update_last_login")
          /\ Finish(t, db)
       \/ /\ f = "none"
          /\ ret' = Return("update_last_login", frame[t], None)
          /\ Finish(t, txn)

\* connect() is called before the try: its fault is not caught
UpdateUserProfileExec(t, user_id, profile_data, f) ==
    /\ ready
    /\ Idle(t)
    /\ \/ /\ f = "connect"
          /\ ret' = Raise("update_user_profile")
          /\ EndUnchanged(t)
       \/ /\ f = "update" \/ (f = "none" /\ lock # 0)
          /\ ret' = Return("update_user_profile", <<user_id, profile_data>>, FALSE)
          /\ EndUnchanged(t)
       \/ /\ f = "none"
          /\ Begin(t, "update_user_profile", <<user_id, profile_data>>,
                   SetProfile(db, user_id, profile_data))

UpdateUserProfileCommit(t, f) ==
    /\ pc[t] = "update_user_profile"
    /\ \/ /\ f = "commit"
          /\ ret' = Return("update_user_profile", frame[t], FALSE)
          /\ Finish(t, db)
       \/ /\ f = "none"
          /\ ret' = Return("update_user_profile", frame[t], TRUE)
          /\ Finish(t, txn)

SetAdminStatusExec(t, user_id, is_admin, f) ==
    /\ ready
    /\ Idle(t)
    /\ \/ /\ f = "connect"
          /\ ret' = Raise("set_admin_status")
          /\ EndUnchanged(t)
       \/ /\ f = "update" \/ (f = "none" /\ lock # 0)
          /\ ret' = Return("set_admin_status", <<user_id, is_admin>>, FALSE)
          /\ EndUnchanged(t)
       \/ /\ f = "none"
          /\ Begin(t, "set_admin_status", <<user_id, is_admin>>,
                   SetIsAdmin(db, user_id, IF is_admin THEN 1 ELSE 0))

SetAdminStatusCommit(t, f) ==
    /\ pc[t] = "set_admin_status"
    /\ \/ /\ f = "commit"
          /\ ret' = Return("set_admin_status", frame[t], FALSE)
          /\ Finish(t, db)
       \/ /\ f = "none"
          /\ ret' = Return("set_admin_status", frame[t], TRUE)
          /\ Finish(t, txn)

ResetUserPasswordExec(t, user_id, new_password_hash, f) ==
    /\ ready
    /\ Idle(t)
    /\ EventRoom(db)
    /\ \/ /\ f = "connect"
          /\ ret' = Raise("reset_user_password")
          /\ EndUnchanged(t)
       \/ /\ f = "update" \/ (f = "none" /\ lock # 0)
          /\ ret' = Return("reset_user_password", <<user_id, new_password_hash>>, FALSE)
          /\ EndUnchanged(t)
       \/ /\ f = "none"
          /\ Begin(t, "reset_user_password", <<user_id, new_password_hash>>,
                   SetPasswordHash(db, user_id, new_password_hash))

\* conn.commit(), then log_event inside the try: what log_event raises is
\* caught by except Exception and turned into False
ResetUserPasswordCommit(t, f) ==
    LET logged == LogEvent(txn, 0, frame[t][1], "password_reset", now, f)
    IN  /\ pc[t] = "reset_user_password"
        /\ \/ /\ f = "commit"
              /\ ret' = Return("reset_user_password", frame[t], FALSE)
              /\ Finish(t, db)
           \/ /\ f # "commit"
              /\ ret' = WithLog(Return("reset_user_password", frame[t], ~logged.raised),
                                logged.outcome)
              /\ Finish(t, logged.db)

---------------------------------------------------------------------------
(* get_user_progress, update_user_progress *)

\* UPDATE user_progress SET points = ?, ... WHERE user_id = ?
SetProgress(d, user_id, points, completed_tutorials, completed_challenges, emoji_collection) ==
    [d EXCEPT !.progress =
        [i \in 1..Len(d.progress) |->
            IF d.progress[i].user_id = user_id
            THEN [user_id |-> user_id, points |-> points,
                  completed_tutorials |-> JsonDumps(completed_tutorials),
                  completed_challenges |-> JsonDumps(completed_challenges),
                  emoji_collection |-> JsonDumps(emoji_collection)]
            ELSE d.progress[i]]]

\* what get_user_progress returns for the committed rows d
get_user_progress(d, user_id) ==
    LET rows == SelectSeq(d.progress, LAMBDA r : r.user_id = user_id)
    IN  IF rows = <<>>
        THEN [points |-> 0, completed_tutorials |-> <<>>,
              completed_challenges |-> <<>>, emoji_collection |-> <<>>]
        ELSE [points |-> rows[1].points,
              completed_tutorials |-> JsonLoads(rows[1].completed_tutorials),
              completed_challenges |-> JsonLoads(rows[1].completed_challenges),
              emoji_collection |-> JsonLoads(rows[1].emoji_collection)]

GetUserProgress(t, user_id, f) ==
    /\ ready
    /\ f \in {"none", "connect", "select"}
    /\ ret' = IF f = "none"
              THEN Return("get_user_progress", <<user_id>>, get_user_progress(db, user_id))
              ELSE Raise("get_user_progress")
    /\ EndUnchanged(t)

\* progress is <<points, completed_tutorials, completed_challenges,
\* emoji_collection>>
UpdateUserProgressExec(t, user_id, progress, f) ==
    /\ ready
    /\ Idle(t)
    /\ \/ /\ f = "connect"
          /\ ret' = Raise("update_user_progress")
          /\ EndUnchanged(t)
       \/ /\ f = "update" \/ (f = "none" /\ lock # 0)
          /\ ret' = Return("update_user_progress", <<user_id, progress>>, FALSE)
          /\ EndUnchanged(t)
       \/ /\ f = "none"
          /\ Begin(t, "update_user_progress", <<user_id, progress>>,
                   SetProgress(db, user_id, progress[1], progress[2], progress[3],
                               progress[4]))

UpdateUserProgressCommit(t, f) ==
    /\ pc[t] = "update_user_progress"
    /\ \/ /\ f = "commit"
          /\ ret' = Return("update_user_progress", frame[t], FALSE)
          /\ Finish(t, db)
       \/ /\ f = "none"
          /\ ret' = Return("update_user_progress", frame[t], TRUE)
          /\ Finish(t, txn)

---------------------------------------------------------------------------
(* log_event as called by the application, get_user_events *)

LogEventCall(t, user_id, event_type, f) ==
    LET logged == LogEvent(db, lock, user_id, event_type, now, f)
    IN  /\ ready
        /\ Idle(t)
        /\ EventRoom(db)
        /\ ret' = WithLog(IF logged.raised THEN Raise("log_event")
                          ELSE Return("log_event", <<user_id, event_type>>, None),
                          logged.outcome)
        /\ db' = logged.db
        /\ txn' = IF lock = 0 THEN logged.db ELSE txn
        /\ UNCHANGED <<schema, lock, now, open, ready, pc, frame>>

\* the orders in which ORDER BY timestamp DESC may return rows: any order
\* in which no row comes before a row of a later timestamp.  Rows of equal
\* timestamp have no order between them.
TimestampDescOrders(rows) ==
    LET n == Len(rows)
        perms == {p \in [1..n -> 1..n] : \A i, j \in 1..n : p[i] = p[j] => i = j}
    IN  {[i \in 1..n |-> rows[p[i]]] : p \in
            {q \in perms : \A i, j \in 1..n :
                i < j => rows[q[i]].timestamp >= rows[q[j]].timestamp}}

\* LIMIT ?: a negative limit is no limit
Limit(rows, limit) ==
    IF limit < 0 \/ limit >= Len(rows) THEN rows ELSE SubSeq(rows, 1, limit)

\* the lists get_user_events may return for the committed rows d.  The id of
\* each row is kept in the model's entries to tell which was logged first.
get_user_events(d, user_id, limit) ==
    {Limit(rows, limit) :
        rows \in TimestampDescOrders(SelectSeq(d.events, LAMBDA e : e.user_id = user_id))}

GetUserEvents(t, user_id, limit, f) ==
    /\ ready
    /\ f \in {"none", "connect", "select"}
    /\ \/ /\ f = "none"
          /\ \E events \in get_user_events(db, user_id, limit) :
                ret' = Return("get_user_events", <<user_id, limit>>, events)
       \/ /\ f # "none"
          /\ ret' = Raise("get_user_events")
    /\ EndUnchanged(t)

---------------------------------------------------------------------------
(* create_certificate, complete_certificate, verify_certificate *)

CertificateRow(id, user_id, certificate_type, certificate_code, issue_date) ==
    [id |-> id, user_id |-> user_id, certificate_type |-> certificate_type,
     certificate_code |-> certificate_code, issue_date |-> issue_date,
     completed_date |-> None]

CertificateCodes(d) == {d.certs[i].certificate_code : i \in 1..Len(d.certs)}

\* str(uuid.uuid4()): a token no earlier call has drawn.  Tokens are
\* numbered in the order they are drawn.
NewCertificateCode(d) == NextId(d.certs)

\* INSERT INTO certificates (user_id, certificate_type, certificate_code)
InsertCertificate(d, user_id, certificate_type, certificate_code, ts) ==
    [d EXCEPT !.certs = Append(@,
        CertificateRow(NextId(d.certs), user_id, certificate_type, certificate_code, ts))]

\* UPDATE certificates SET completed_date = CURRENT_TIMESTAMP
\* WHERE certificate_code = ?
SetCompletedDate(d, certificate_code, ts) ==
    [d EXCEPT !.certs =
        [i \in 1..Len(d.certs) |->
            IF d.certs[i].certificate_code = certificate_code
            THEN [d.certs[i] EXCEPT !.completed_date = Some(ts)]
            ELSE d.certs[i]]]

\* the bounded certificates table has room for one more row
CertificateRoom(d) == Len(d.certs) < MaxCerts

\* the bounded event table has room for the event of one more certificate
\* operation: each certificate may log its creation on top of MaxEvents
CertificateEventRoom(d) == Len(d.events) < MaxEvents + MaxCerts

CreateCertificateExec(t, user_id, certificate_type, f) ==
    LET certificate_code == NewCertificateCode(db)
    IN  /\ ready
        /\ Idle(t)
        /\ CertificateEventRoom(db)
        /\ CertificateRoom(db)
        /\ \/ /\ f = "connect"
              /\ ret' = Raise("create_certificate")
              /\ EndUnchanged(t)
           \/ /\ f = "insert" \/ (f = "none" /\ lock # 0)
              /\ ret' = Return("create_certificate", <<user_id, certificate_type>>, None)
              /\ EndUnchanged(t)
           \/ /\ f = "none"
              /\ Begin(t, "create_certificate",
                       <<user_id, certificate_type, certificate_code>>,
                       InsertCertificate(db, user_id, certificate_type,
                                         certificate_code, now))

\* conn.commit(), then log_event inside the try, then return the code
CreateCertificateCommit(t, f) ==
    LET args == SubSeq(frame[t], 1, 2)
        logged == LogEvent(txn, 0, frame[t][1], "certificate_created", now, f)
    IN  /\ pc[t] = "create_certificate"
        /\ \/ /\ f = "commit"
              /\ ret' = Return("create_certificate", args, None)
              /\ Finish(t, db)
           \/ /\ f # "commit"
              /\ ret' = WithLog(Return("create_certificate", args,
                                       IF logged.raised THEN None ELSE Some(frame[t][3])),
                                logged.outcome)
              /\ Finish(t, logged.db)

CompleteCertificateExec(t, certificate_code, f) ==
    /\ ready
    /\ Idle(t)
    /\ CertificateEventRoom(db)
    /\ \/ /\ f = "connect"
          /\ ret' = Raise("complete_certificate")
          /\ EndUnchanged(t)
       \/ /\ f = "update" \/ (f = "none" /\ lock # 0)
          /\ ret' = Return("complete_certificate", <<certificate_code>>, FALSE)
          /\ EndUnchanged(t)
       \/ /\ f = "none"
          /\ Begin(t, "complete_certificate", <<certificate_code>>,
                   SetCompletedDate(db, certificate_code, now))

\* conn.commit(); SELECT user_id, certificate_type of the row; log_event
\* when the SELECT found one; return True
CompleteCertificateCommit(t, f) ==
    LET rows == SelectSeq(txn.certs, LAMBDA c : c.certificate_code = frame[t][1])
        logged == LogEvent(txn, 0, rows[1].user_id, "certificate_completed", now, f)
    IN  /\ pc[t] = "complete_certificate"
        /\ \/ /\ f = "commit"
              /\ ret' = Return("complete_certificate", frame[t], FALSE)
              /\ Finish(t, db)
           \/ /\ f = "select"
              /\ ret' = Return("complete_certificate", frame[t], FALSE)
              /\ Finish(t, txn)
           \/ /\ f \notin {"commit", "select"}
              /\ rows = <<>>
              /\ ret' = Return("complete_certificate", frame[t], TRUE)
              /\ Finish(t, txn)
           \/ /\ f \notin {"commit", "select"}
              /\ rows # <<>>
              /\ ret' = WithLog(Return("complete_certificate", frame[t], ~logged.raised),
                                logged.outcome)
              /\ Finish(t, logged.db)

\* what verify_certificate returns for the committed rows d: the first row
\* of certificates JOIN users ON user_id = id with that code
verify_certificate(d, certificate_code) ==
    LET certs == SelectSeq(d.certs, LAMBDA c :
                    /\ c.certificate_code = certificate_code
                    /\ c.user_id \in UserIds(d))
        user == SelectSeq(d.users, LAMBDA u : u.id = certs[1].user_id)[1]
    IN  IF certs = <<>> THEN [is_valid |-> FALSE]
        ELSE [certificate_type |-> certs[1].certificate_type,
              issue_date |-> certs[1].issue_date,
              completed_date |-> certs[1].completed_date,
              username |-> user.username,
              profile_data |-> [k \in ProfileKeys |->
                    IF user.profile[k] = None THEN "" ELSE user.profile[k][1]],
              user_id |-> user.id,
              is_completed |-> certs[1].completed_date # None,
              is_valid |-> TRUE]

VerifyCertificate(t, certificate_code, f) ==
    /\ ready
    /\ f \in {"none", "connect", "select"}
    /\ ret' = IF f = "none"
              THEN Return("verify_certificate", <<certificate_code>>,
                          verify_certificate(db, certificate_code))
              ELSE Raise("verify_certificate")
    /\ EndUnchanged(t)

---------------------------------------------------------------------------
(* The clock *)

Tick ==
    /\ now < MaxTime
    /\ now' = now + 1
    /\ ret' = NoRet
    /\ UNCHANGED <<schema, db, txn, lock, open, ready, pc, frame>>

---------------------------------------------------------------------------
(* Specifications *)

\* The process starts on a file that does not exist yet or on a legacy file;
\* no DatabaseManager has been constructed.
Init ==
    /\ \/ schema = NoTables /\ db = EmptyStore
       \/ schema = LegacyTables /\ db \in LegacyStores
    /\ txn = db
    /\ lock = 0
    /\ now = 0
    /\ open = 0
    /\ ready = FALSE
    /\ pc = [t \in Threads |-> "idle"]
    /\ frame = [t \in Threads |-> <<>>]
    /\ ret = NoRet

\* user_id arguments: ids of rows and ids of no row
UserIdArgs == 1..2

\* <<points, completed_tutorials, completed_challenges, emoji_collection>>
ProgressArgs ==
    { <<5, <<"t1", "t2">>, <<>>, <<"e1">>>>,
      <<7, <<>>, <<"c1">>, <<>>>> }

\* certificate_code arguments: the tokens drawn and one never drawn
CodeArgs == 1..(MaxCerts + 1)

LimitArgs == {0, 1, 50}

\* Accounts: two threads that create users and administer them, on a new
\* or a legacy file
NextAccounts ==
    \E t \in Threads :
        \/ \E f \in InitFaults, pick \in FirstUserChoices(db) : Initialize(t, f, pick)
        \/ \E username \in Usernames, password_hash \in Hashes,
              profile_data \in {NoProfile, PartialProfile}, is_admin \in BOOLEAN,
              f \in {"none", "connect", "insert_user", "insert_progress"} :
              AddUserInsert(t, username, password_hash, profile_data, is_admin, f)
        \/ \E f \in {"none", "log_connect", "log_insert", "commit"} : AddUserCommit(t, f)
        \/ \E username \in Usernames, f \in {"none", "connect", "select"} :
              GetUser(t, username, f)
        \/ \E user_id \in UserIdArgs, is_admin \in BOOLEAN,
              f \in {"none", "connect", "update"} :
              SetAdminStatusExec(t, user_id, is_admin, f)
        \/ \E f \in {"none", "commit"} : SetAdminStatusCommit(t, f)

Spec == Init /\ [][NextAccounts]_vars

\* The other workloads start on a new file.
InitNewFile == Init /\ schema = NoTables

\* DatabaseManager() and add_user with the default arguments
Setup(t, usernames) ==
    \/ \E f \in {"none", "connect"}, pick \in FirstUserChoices(db) : Initialize(t, f, pick)
    \/ \E username \in usernames,
          f \in {"none", "connect", "insert_user", "insert_progress"} :
          AddUserInsert(t, username, "h1", NoProfile, FALSE, f)
    \/ \E f \in {"none", "log_connect", "log_insert", "commit"} : AddUserCommit(t, f)

\* Profiles: logging users in, editing their rows, resetting passwords
NextProfiles ==
    \E t \in Threads :
        \/ Setup(t, {"a"})
        \/ \E user_id \in UserIdArgs, f \in {"none", "connect", "update"} :
              UpdateLastLoginExec(t, user_id, f)
        \/ \E f \in {"none", "commit"} : UpdateLastLoginCommit(t, f)
        \/ \E user_id \in UserIdArgs, profile_data \in {NoProfile, PartialProfile},
              f \in {"none", "connect", "update"} :
              UpdateUserProfileExec(t, user_id, profile_data, f)
        \/ \E f \in {"none", "commit"} : UpdateUserProfileCommit(t, f)
        \/ \E user_id \in UserIdArgs, new_password_hash \in Hashes,
              f \in {"none", "connect", "update"} :
              ResetUserPasswordExec(t, user_id, new_password_hash, f)
        \/ \E f \in {"none", "commit", "log_connect", "log_insert"} :
              ResetUserPasswordCommit(t, f)
        \/ \E f \in {"none", "connect", "select"} : GetUser(t, "a", f)
        \/ Tick

SpecProfiles == InitNewFile /\ [][NextProfiles]_vars

\* Progress: writing and reading learning progress
NextProgress ==
    \E t \in Threads :
        \/ Setup(t, Usernames)
        \/ \E user_id \in UserIdArgs, progress \in ProgressArgs,
              f \in {"none", "connect", "update"} :
              UpdateUserProgressExec(t, user_id, progress, f)
        \/ \E f \in {"none", "commit"} : UpdateUserProgressCommit(t, f)
        \/ \E user_id \in UserIdArgs, f \in {"none", "connect", "select"} :
              GetUserProgress(t, user_id, f)

SpecProgress == InitNewFile /\ [][NextProgress]_vars

\* Events: logging events and reading the event log
NextEvents ==
    \E t \in Threads :
        \/ Setup(t, {"a"})
        \/ \E user_id \in UserIdArgs, f \in {"none", "log_connect", "log_insert"} :
              LogEventCall(t, user_id, "login", f)
        \/ \E user_id \in UserIdArgs, limit \in LimitArgs,
              f \in {"none", "connect", "select"} :
              GetUserEvents(t, user_id, limit, f)
        \/ Tick

SpecEvents == InitNewFile /\ [][NextEvents]_vars

\* Certificates: issuing, completing and verifying certificates
NextCertificates ==
    \E t \in Threads :
        \/ Setup(t, {"a"})
        \/ \E user_id \in UserIdArgs, f \in {"none", "connect", "insert"} :
              CreateCertificateExec(t, user_id, "python", f)
        \/ \E f \in {"none", "commit", "log_connect", "log_insert"} :
              CreateCertificateCommit(t, f)
        \/ \E certificate_code \in CodeArgs, f \in {"none", "connect", "update"} :
              CompleteCertificateExec(t, certificate_code, f)
        \/ \E f \in {"none", "commit", "select", "log_connect", "log_insert"} :
              CompleteCertificateCommit(t, f)
        \/ \E certificate_code \in CodeArgs, f \in {"none", "connect", "select"} :
              VerifyCertificate(t, certificate_code, f)
        \/ Tick

SpecCertificates == InitNewFile /\ [][NextCertificates]_vars

\* every operation of the model
Next ==
    \/ NextAccounts
    \/ NextProfiles
    \/ NextProgress
    \/ NextEvents
    \/ NextCertificates

---------------------------------------------------------------------------
(* Properties *)

\* C1: add_user with a username that is not in the users table returns a
\* new user id (None is returned only for a username already there), and
\* get_user of that username then returns the id, the username and the
\* password_hash just stored, with is_admin as passed (False by default).
AddUserThenGetUser ==
    [][(ret'.op = "add_user" /\ ret'.kind = "return") =>
        IF ret'.val = None
        THEN ret'.args[1] \in UsernamesOf(db)
        ELSE /\ ret'.val[1] \notin UserIds(db)
             /\ get_user(db', ret'.args[1]) # None
             /\ LET user == get_user(db', ret'.args[1])[1]
                IN  /\ user.id = ret'.val[1]
                    /\ user.username = ret'.args[1]
                    /\ user.password_hash = ret'.args[2]
                    /\ user.is_admin = ret'.args[4]]_vars

\* add_user has just returned the id of a user created with the default
\* is_admin, and get_user finds the user
AddUserReturnedId ==
    /\ ret.op = "add_user"
    /\ ret.kind = "return"
    /\ ret.val # None
    /\ ret.args[4] = FALSE
    /\ get_user(db, ret.args[1]) # None

\* C2: add_user with a username that already exists returns None and leaves
\* users and user_progress as they were; add_user never returns an id for a
\* username that exists; no two user rows ever share a username.
UsernamesStayUnique ==
    [][/\ (ret'.op = "add_user" /\ ret'.kind = "return" /\ ret'.val = None) =>
            /\ ret'.args[1] \in UsernamesOf(db)
            /\ db'.users = db.users
            /\ db'.progress = db.progress
       /\ (ret'.op = "add_user" /\ ret'.kind = "return" /\ ret'.val # None) =>
            ret'.args[1] \notin UsernamesOf(db)
       /\ \A i, j \in 1..Len(db'.users) :
            db'.users[i].username = db'.users[j].username => i = j
       /\ \A i, j \in 1..Len(txn'.users) :
            txn'.users[i].username = txn'.users[j].username => i = j]_vars

\* add_user has just returned the duplicate signal for a username that is
\* in the users table, next to a second user
DuplicateRefused ==
    /\ ret.op = "add_user"
    /\ ret.kind = "return"
    /\ ret.val = None
    /\ ret.args[1] \in UsernamesOf(db)
    /\ Len(db.users) = 2

\* C6: initialization of a store with at least one user and no admin makes
\* exactly one user admin and changes nothing else of any user row;
\* initialization of a store that has an admin, or no user, changes no row.
BootstrapAdminOnce ==
    [][(ret'.op = "initialize_database" /\ ret'.kind = "return") =>
        IF Admins(db) = {} /\ db.users # <<>>
        THEN /\ Cardinality(Admins(db')) = 1
             /\ Len(db'.users) = Len(db.users)
             /\ \A i \in 1..Len(db.users) :
                    db'.users[i] = [db.users[i] EXCEPT
                        !.is_admin = IF db.users[i].id \in Admins(db') THEN 1 ELSE @]
        ELSE db'.users = db.users]_vars

\* initialization has just returned on a store of two users of which
\* exactly one is admin, here the one inserted second
BootstrapAdminRan ==
    /\ ret.op = "initialize_database"
    /\ ret.kind = "return"
    /\ Len(db.users) = 2
    /\ Admins(db) = {2}

\* C3: right after an add_user call that returned a new user id, every list
\* get_user_events(id) may return holds a 'user_created' entry.
AddUserLogsUserCreated ==
    (ret.op = "add_user" /\ ret.kind = "return" /\ ret.val # None) =>
        \A events \in get_user_events(db, ret.val[1], 50) :
            \E i \in 1..Len(events) : events[i].event_type = "user_created"

\* C4: whenever update_user_progress(id, points, tutorials, challenges,
\* emojis) has returned True, get_user_progress(id) returns exactly those four
\* values, for every user id.
UpdateThenGetUserProgress ==
    (ret.op = "update_user_progress" /\ ret.kind = "return" /\ ret.val = TRUE) =>
        get_user_progress(db, ret.args[1]) =
            [points |-> ret.args[2][1],
             completed_tutorials |-> ret.args[2][2],
             completed_challenges |-> ret.args[2][3],
             emoji_collection |-> ret.args[2][4]]

\* C5: a code returned by create_certificate verifies as valid and not
\* completed; after complete_certificate of an issued code has returned True
\* the code verifies as completed with a completed_date; a code that was
\* never issued verifies as not valid.
CertificateVerifies ==
    /\ (ret.op = "create_certificate" /\ ret.kind = "return" /\ ret.val # None) =>
            LET v == verify_certificate(db, ret.val[1])
            IN  v.is_valid /\ ~v.is_completed
    /\ (/\ ret.op = "complete_certificate" /\ ret.kind = "return" /\ ret.val = TRUE
        /\ ret.args[1] \in CertificateCodes(db)) =>
            LET v == verify_certificate(db, ret.args[1])
            IN  v.is_valid /\ v.is_completed /\ v.completed_date # None
    /\ (/\ ret.op = "verify_certificate" /\ ret.kind = "return"
        /\ ret.args[1] \notin CertificateCodes(db)) =>
            ~ret.val.is_valid

\* C7: get_user_events(id, limit) returns at most limit entries, all of user
\* id, each logged after the entry that follows it in the list (a later
\* insert has a larger row id), events of one timestamp tick included.
EventsNewestFirst ==
    (ret.op = "get_user_events" /\ ret.kind = "return") =>
        /\ Len(ret.val) <= ret.args[2]
        /\ \A i \in 1..Len(ret.val) : ret.val[i].user_id = ret.args[1]
        /\ \A i, j \in 1..Len(ret.val) : i < j => ret.val[i].id > ret.val[j].id

\* C8: when the log_event call made by an operation fails, the operation
\* does not raise: add_user returns the id of a user that is now stored with
\* its progress row, create_certificate returns the code, reset_user_password
\* and complete_certificate return True.
LogEventFailureSwallowed ==
    (ret.log = "failed" /\ ret.op # "log_event") =>
        /\ ret.kind = "return"
        /\ ret.op = "add_user" =>
              /\ ret.val # None
              /\ ret.val[1] \in UserIds(db)
              /\ \E i \in 1..Len(db.progress) : db.progress[i].user_id = ret.val[1]
        /\ ret.op = "create_certificate" => ret.val # None
        /\ ret.op \in {"reset_user_password", "complete_certificate"} => ret.val = TRUE

\* C9: no write operation lets a storage fault reach its caller as an
\* exception.
WritesNeverRaise ==
    ret.op \in {"add_user", "update_last_login", "update_user_progress",
                "update_user_profile", "set_admin_status", "reset_user_password",
                "create_certificate", "complete_certificate"} =>
        ret.kind # "raise"

\* C10: whenever no operation is in progress, no connection is open.
ConnectionsClosed == (\A t \in Threads : pc[t] = "idle") => open = 0

\* C11: right after add_user has returned a new user id the store holds
\* exactly one user_progress row of that id and get_user_progress(id) is 0
\* points and three empty lists; get_user_progress of an id that has no row
\* returns the same defaults.
FreshProgressIsZero ==
    LET zero == [points |-> 0, completed_tutorials |-> <<>>,
                 completed_challenges |-> <<>>, emoji_collection |-> <<>>]
    IN  /\ (ret.op = "add_user" /\ ret.kind = "return" /\ ret.val # None) =>
              /\ Cardinality({i \in 1..Len(db.progress) :
                                db.progress[i].user_id = ret.val[1]}) = 1
              /\ get_user_progress(db, ret.val[1]) = zero
        /\ (/\ ret.op = "get_user_progress" /\ ret.kind = "return"
            /\ \A i \in 1..Len(db.progress) : db.progress[i].user_id # ret.args[1]) =>
              ret.val = zero

\* add_user has just returned the id of a second user while the first
\* user's progress row holds points that were written
SecondUserFresh ==
    /\ ret.op = "add_user"
    /\ ret.kind = "return"
    /\ ret.val = Some(2)
    /\ \E i \in 1..Len(db.progress) :
          db.progress[i].user_id = 1 /\ db.progress[i].points > 0

\* C12: a certificate row is created with completed_date null, is never
\* removed, and once its completed_date is set no step changes it or sets it
\* back to null, a further complete_certificate of the same code included.
CompletedOnce ==
    [][/\ Len(db'.certs) >= Len(db.certs)
       /\ \A i \in 1..Len(db'.certs) :
            IF i > Len(db.certs)
            THEN db'.certs[i].completed_date = None
            ELSE /\ db'.certs[i].certificate_code = db.certs[i].certificate_code
                 /\ db.certs[i].completed_date # None =>
                        db'.certs[i].completed_date = db.certs[i].completed_date]_vars

\* C13: when the INSERT into user_progress fails inside add_user after the
\* INSERT into users succeeded, the user row is in the store without a
\* user_progress row once add_user has ended.
OrphanUserRemains ==
    (ret.op = "add_user" /\ ret.kind = "raise" /\ ret.val = Some("insert_progress")) =>
        \E i \in 1..Len(db.users) :
            /\ db.users[i].username = ret.args[1]
            /\ \A j \in 1..Len(db.progress) : db.progress[j].user_id # db.users[i].id

\* C13, as the code behaves: when the INSERT into user_progress fails inside
\* add_user after the INSERT into users succeeded, add_user ends with the
\* exception and the store is as it was before the call: no row of that
\* username is in users and no user is without a user_progress row.
FailedAddUserRolledBack ==
    [][(/\ ret'.op = "add_user" /\ ret'.kind = "raise"
        /\ ret'.val = Some("insert_progress")) =>
            /\ db' = db
            /\ get_user(db', ret'.args[1]) = None
            /\ \A i \in 1..Len(db'.users) : \E j \in 1..Len(db'.progress) :
                    db'.progress[j].user_id = db'.users[i].id]_vars

\* add_user of a second username has just ended with the exception of its
\* INSERT into user_progress, next to a user stored before
ProgressInsertFailed ==
    /\ ret.op = "add_user"
    /\ ret.kind = "raise"
    /\ ret.val = Some("insert_progress")
    /\ Len(db.users) = 1
    /\ ret.args[1] \notin UsernamesOf(db)

====
